---- MODULE Spec2Model ----
(***************************************************************************)
(* The service syncer controller of the virtualcluster syncer              *)
(* (pkg/syncer/controllers/service/controller.go): the informer event      *)
(* handlers that feed the controller's work queue, the Reconcile           *)
(* dispatcher and the three mirror operations against the super master     *)
(* (host) cluster.                                                         *)
(***************************************************************************)
EXTENDS Naturals, Integers, Sequences, FiniteSets, TLC

(***************************************************************************)
(* Bounds and value universes                                              *)
(***************************************************************************)

\* Resource versions of tenant services range over 1..MaxRV.
MaxRV == 2

\* Longest run of consecutive failed Create attempts that is counted exactly.
MaxStreak == 2

\* Tenant events (create, update, delete of a tenant service) in one run.
MaxEvents == 4

\* Failures of the host API in one run: after them the host answers.
MaxFaults == 1

\* The workers that drain the queue of the multi cluster controller.
Workers == {"w1", "w2"}

Clusters == {"c1", "c2"}

Namespaces == {"default", "prod"}

Names == {"web", "db"}

\* A tenant object reference: cluster, namespace and name.
Key(cluster, namespace, name) == [cluster |-> cluster, namespace |-> namespace, name |-> name]

\* The tenant objects of the model: one object, and one that differs from it
\* in the name only, one in the namespace only and one in the cluster only.
TenantKeys ==
  {Key("c1", "default", "web"), Key("c1", "default", "db"),
   Key("c1", "prod", "web"), Key("c2", "default", "web")}

\* A tenant-side v1.Service: the fields the controller reads or copies.
Services ==
  [namespace : Namespaces, name : Names, resourceVersion : 1..MaxRV, clusterIP : {"10.0.0.1"}]

\* A typed nil *v1.Service: passes the type assertion of Reconcile, and is
\* the object that cannot be converted by BuildMetadata.
NilService == [nil |-> TRUE]

IsNilService(obj) == "nil" \in DOMAIN obj

\* request.Obj is an interface value: it can hold no value at all (an untyped
\* nil) or a value of another type than *v1.Service, such as the tombstone
\* cache.DeletedFinalStateUnknown an informer hands out for a missed delete.
NilObject == [dynamicType |-> "nil"]

NotAService == [dynamicType |-> "DeletedFinalStateUnknown"]

OtherObjects == {NilObject, NotAService}

\* The type assertion obj.(*v1.Service): it holds for a service and for a
\* typed nil *v1.Service, and panics otherwise.
IsService(obj) == "dynamicType" \notin DOMAIN obj

\* reconciler.AddEvent, reconciler.UpdateEvent, reconciler.DeleteEvent
AddEvent == "Add"

UpdateEvent == "Update"

DeleteEvent == "Delete"

EventKinds == {AddEvent, UpdateEvent, DeleteEvent}

\* Errors of the host API other than the benign race of the call: a Create
\* can time out or find the target namespace missing, a Delete can time out.
CreateFaults == {"Timeout", "NotFound"}

DeleteFaults == {"Timeout"}

HostFaults == CreateFaults \cup DeleteFaults

NoFault == "none"

ErrNil == "nil"

ErrAlreadyExists == "AlreadyExists"

ErrNotFound == "NotFound"

ErrConversion == "ConversionError"

\* No error value: the call did not return, it panicked.
ErrPanic == "panic"

(***************************************************************************)
(* State                                                                   *)
(***************************************************************************)
VARIABLES
  host,      \* the services of the super master: a set of host objects
  wiring,    \* what Register has wired: the informer handlers, the controller manager
  lifecycle, \* per cluster how its last AddCluster ended, and the clusters removed
  last,      \* the last Reconcile invocation: request, fault, outcome, host before
  samePrev,  \* whether the last request equals the one reconciled just before it
  prevErr,   \* the error returned by the Reconcile just before the last one
  streak,    \* consecutive failed Create attempts of last.request before the last one
  queue,     \* c.queue, the rate limiting work queue of the controller
  lastEvent, \* the last informer notification: handler, objects, c.queue before
  enqueuedFor, \* per key waiting in c.queue: the cluster of the object that put it there
  tenant,    \* per tenant object: its resource version in its cluster, 0 when absent
  watched,   \* the tenant clusters the multi cluster controller watches
  pending,   \* per tenant object: the latest notification, its kind and object
  wq,        \* the work queue of the multi cluster controller, of tenant keys
  delayed,   \* the keys the rate limiter holds back before it adds them again
  worker,    \* per worker: where it is, its request and what Reconcile returned
  budget     \* the tenant events and the host faults that may still happen

reconcileVars == <<last, samePrev, prevErr, streak>>

informerVars == <<queue, lastEvent, enqueuedFor>>

engineVars == <<lifecycle, tenant, watched, pending, wq, delayed, worker, budget>>

vars == <<host, wiring, reconcileVars, informerVars, engineVars>>

(***************************************************************************)
(* conversion package                                                      *)
(***************************************************************************)

\* conversion.ToSuperMasterNamespace: the host namespace of a tenant
\* namespace. The package is not part of the sources at hand, so the function
\* is modelled by its documented contract only: the same pair always gives
\* the same host namespace and no two pairs give the same one. The string
\* chosen here stands for that contract (its separator occurs in no cluster
\* or namespace name); it is not a statement about the string the package
\* builds, and nothing below decides whether the package keeps the contract.
ToSuperMasterNamespace(cluster, ns) == cluster \o "_" \o ns

\* conversion.BuildMetadata: a copy of the object relocated to targetNamespace
\* and stamped with the provenance of the tenant object; an error for an
\* object that has no metadata.
BuildMetadata(cluster, targetNamespace, obj) ==
  IF IsNilService(obj)
  THEN [err |-> ErrConversion, obj |-> NilService]
  ELSE [err |-> ErrNil,
        obj |-> [namespace |-> targetNamespace,
                 name |-> obj.name,
                 clusterLabel |-> cluster,
                 namespaceLabel |-> obj.namespace,
                 clusterIP |-> obj.clusterIP]]

\* conversion.MutateService: the cluster IP belongs to the tenant cluster, the
\* host allocates its own.
MutateService(pService) == [pService EXCEPT !.clusterIP = ""]

(***************************************************************************)
(* Host API: c.serviceClient.Services(ns)                                  *)
(***************************************************************************)

HostObjectsAt(h, ns, name) == {o \in h : o.namespace = ns /\ o.name = name}

\* Services(ns).Create(obj): atomic; fails without effect on a fault, reports
\* AlreadyExists when ns/name is taken.
HostCreate(h, ns, obj, fault) ==
  IF fault # NoFault
  THEN [host |-> h, err |-> fault]
  ELSE IF HostObjectsAt(h, ns, obj.name) # {}
       THEN [host |-> h, err |-> ErrAlreadyExists]
       ELSE [host |-> h \cup {obj}, err |-> ErrNil]

\* Services(ns).Delete(name, opts): atomic; fails without effect on a fault,
\* reports NotFound when nothing is at ns/name.
HostDelete(h, ns, name, fault) ==
  IF fault # NoFault
  THEN [host |-> h, err |-> fault]
  ELSE IF HostObjectsAt(h, ns, name) = {}
       THEN [host |-> h, err |-> ErrNotFound]
       ELSE [host |-> h \ HostObjectsAt(h, ns, name), err |-> ErrNil]

\* One host API call as it is recorded in the outcome of a handler.
Call(verb, ns, name, err) == [verb |-> verb, namespace |-> ns, name |-> name, err |-> err]

(***************************************************************************)
(* Mirror operations                                                       *)
(***************************************************************************)

\* The outcome of a handler: the host after it, the error it returns and the
\* host API calls it issued.
Outcome(h, err, calls) == [host |-> h, err |-> err, calls |-> calls]

\* reconcileServiceCreate without the IsAlreadyExists check.
reconcileServiceCreateStrict(h, cluster, namespace, name, service, fault) ==
  LET targetNamespace == ToSuperMasterNamespace(cluster, namespace)
      built == BuildMetadata(cluster, targetNamespace, service)
  IN IF built.err # ErrNil
     THEN Outcome(h, built.err, <<>>)
     ELSE LET pService == MutateService(built.obj)
              r == HostCreate(h, targetNamespace, pService, fault)
          IN Outcome(r.host, r.err, <<Call("Create", targetNamespace, pService.name, r.err)>>)

\* reconcileServiceCreate returning nil whatever the error of the Create.
reconcileServiceCreateIgnoresError(h, cluster, namespace, name, service, fault) ==
  LET targetNamespace == ToSuperMasterNamespace(cluster, namespace)
      built == BuildMetadata(cluster, targetNamespace, service)
  IN IF built.err # ErrNil
     THEN Outcome(h, built.err, <<>>)
     ELSE LET pService == MutateService(built.obj)
              r == HostCreate(h, targetNamespace, pService, fault)
          IN Outcome(r.host, ErrNil, <<Call("Create", targetNamespace, pService.name, r.err)>>)

\* reconcileServiceCreate building and creating the copy in the tenant
\* namespace instead of the translated one.
reconcileServiceCreateTenantNamespace(h, cluster, namespace, name, service, fault) ==
  LET built == BuildMetadata(cluster, namespace, service)
  IN IF built.err # ErrNil
     THEN Outcome(h, built.err, <<>>)
     ELSE LET pService == MutateService(built.obj)
              r == HostCreate(h, namespace, pService, fault)
              call == Call("Create", namespace, pService.name, r.err)
          IN IF r.err = ErrAlreadyExists
             THEN Outcome(r.host, ErrNil, <<call>>)
             ELSE Outcome(r.host, r.err, <<call>>)

\* reconcileServiceCreate that replaces a service that already exists: it
\* deletes it and creates it again.
reconcileServiceCreateReplace(h, cluster, namespace, name, service, fault) ==
  LET targetNamespace == ToSuperMasterNamespace(cluster, namespace)
      built == BuildMetadata(cluster, targetNamespace, service)
  IN IF built.err # ErrNil
     THEN Outcome(h, built.err, <<>>)
     ELSE LET pService == MutateService(built.obj)
              r == HostCreate(h, targetNamespace, pService, fault)
              call == Call("Create", targetNamespace, pService.name, r.err)
          IN IF r.err = ErrAlreadyExists
             THEN LET d == HostDelete(r.host, targetNamespace, pService.name, NoFault)
                      c == HostCreate(d.host, targetNamespace, pService, NoFault)
                  IN Outcome(c.host, c.err,
                             <<call, Call("Delete", targetNamespace, pService.name, d.err),
                               Call("Create", targetNamespace, pService.name, c.err)>>)
             ELSE Outcome(r.host, r.err, <<call>>)

\* (c *controller) reconcileServiceCreate
reconcileServiceCreate(h, cluster, namespace, name, service, fault) ==
  LET targetNamespace == ToSuperMasterNamespace(cluster, namespace)
      built == BuildMetadata(cluster, targetNamespace, service)
  IN IF built.err # ErrNil
     THEN Outcome(h, built.err, <<>>)
     ELSE LET pService == MutateService(built.obj)
              r == HostCreate(h, targetNamespace, pService, fault)
              call == Call("Create", targetNamespace, pService.name, r.err)
          IN IF r.err = ErrAlreadyExists
             THEN Outcome(r.host, ErrNil, <<call>>)
             ELSE Outcome(r.host, r.err, <<call>>)

\* reconcileServiceUpdate creating the copy like reconcileServiceCreate.
reconcileServiceUpdateCreates(h, cluster, namespace, name, service, fault) ==
  reconcileServiceCreate(h, cluster, namespace, name, service, fault)

\* (c *controller) reconcileServiceUpdate
reconcileServiceUpdate(h, cluster, namespace, name, service, fault) ==
  Outcome(h, ErrNil, <<>>)

\* reconcileServiceRemove without the IsNotFound check.
reconcileServiceRemoveStrict(h, cluster, namespace, name, service, fault) ==
  LET targetNamespace == ToSuperMasterNamespace(cluster, namespace)
      r == HostDelete(h, targetNamespace, name, fault)
  IN Outcome(r.host, r.err, <<Call("Delete", targetNamespace, name, r.err)>>)

\* reconcileServiceRemove that deletes every service of the host namespace.
reconcileServiceRemoveWholeNamespace(h, cluster, namespace, name, service, fault) ==
  LET targetNamespace == ToSuperMasterNamespace(cluster, namespace)
      r == HostDelete(h, targetNamespace, name, fault)
      call == Call("Delete", targetNamespace, name, r.err)
  IN IF r.err = ErrNotFound
     THEN Outcome(r.host, ErrNil, <<call>>)
     ELSE Outcome({o \in r.host : o.namespace # targetNamespace}, r.err, <<call>>)

\* (c *controller) reconcileServiceRemove
reconcileServiceRemove(h, cluster, namespace, name, service, fault) ==
  LET targetNamespace == ToSuperMasterNamespace(cluster, namespace)
      r == HostDelete(h, targetNamespace, name, fault)
      call == Call("Delete", targetNamespace, name, r.err)
  IN IF r.err = ErrNotFound
     THEN Outcome(r.host, ErrNil, <<call>>)
     ELSE Outcome(r.host, r.err, <<call>>)

\* reconciler.Result
Result(requeue) == [Requeue |-> requeue]

\* Reconcile logging the error of the handler and returning success.
ReturnedDropsError(out) ==
  [host |-> out.host, result |-> Result(FALSE), err |-> ErrNil, calls |-> out.calls]

\* What Reconcile returns for the error of the handler it dispatched to.
Returned(out) ==
  [host |-> out.host,
   result |-> IF out.err # ErrNil THEN Result(TRUE) ELSE Result(FALSE),
   err |-> out.err,
   calls |-> out.calls]

\* Reconcile does not return: the unchecked type assertion
\* request.Obj.(*v1.Service) panics before the handler is called, so no host
\* call is issued and neither a result nor an error value comes back.
NoResult == [panic |-> TRUE]

Panicked(h) == [host |-> h, result |-> NoResult, err |-> ErrPanic, calls |-> <<>>]

\* Reconcile with a default branch that rejects an unknown event kind.
ReconcileRejectsUnknown(h, request, fault) ==
  CASE request.event = AddEvent ->
         IF IsService(request.obj)
         THEN Returned(reconcileServiceCreate(h, request.cluster, request.namespace,
                                              request.name, request.obj, fault))
         ELSE Panicked(h)
    [] request.event = UpdateEvent ->
         IF IsService(request.obj)
         THEN Returned(reconcileServiceUpdate(h, request.cluster, request.namespace,
                                              request.name, request.obj, fault))
         ELSE Panicked(h)
    [] request.event = DeleteEvent ->
         IF IsService(request.obj)
         THEN Returned(reconcileServiceRemove(h, request.cluster, request.namespace,
                                              request.name, request.obj, fault))
         ELSE Panicked(h)
    [] OTHER -> Returned(Outcome(h, "UnknownEvent", <<>>))

\* (c *controller) Reconcile: the switch on request.Event; each case asserts
\* request.Obj.(*v1.Service) as it calls its handler; an event kind that
\* matches no case falls through to the final return.
Reconcile(h, request, fault) ==
  CASE request.event = AddEvent ->
         IF IsService(request.obj)
         THEN Returned(reconcileServiceCreate(h, request.cluster, request.namespace,
                                              request.name, request.obj, fault))
         ELSE Panicked(h)
    [] request.event = UpdateEvent ->
         IF IsService(request.obj)
         THEN Returned(reconcileServiceUpdate(h, request.cluster, request.namespace,
                                              request.name, request.obj, fault))
         ELSE Panicked(h)
    [] request.event = DeleteEvent ->
         IF IsService(request.obj)
         THEN Returned(reconcileServiceRemove(h, request.cluster, request.namespace,
                                              request.name, request.obj, fault))
         ELSE Panicked(h)
    [] OTHER -> Returned(Outcome(h, ErrNil, <<>>))

(***************************************************************************)
(* Work queue (workqueue.Type behind c.queue) and informer event handlers  *)
(***************************************************************************)

EmptyQueue == [queue |-> <<>>, dirty |-> {}, processing |-> {}]

\* queue.Add without the check of the dirty set.
QueueAddAlways(q, item) ==
  IF item \in q.processing
  THEN [q EXCEPT !.dirty = @ \cup {item}]
  ELSE [q EXCEPT !.dirty = @ \cup {item}, !.queue = Append(@, item)]

\* queue.Add(item): an item that is already waiting is not added again; an
\* item that is being processed is only marked, and queued when it is done.
QueueAdd(q, item) ==
  IF item \in q.dirty
  THEN q
  ELSE IF item \in q.processing
       THEN [q EXCEPT !.dirty = @ \cup {item}]
       ELSE [q EXCEPT !.dirty = @ \cup {item}, !.queue = Append(@, item)]

\* cache.MetaNamespaceKeyFunc: "namespace/name", or "name" without namespace.
MetaNamespaceKeyFunc(obj) ==
  IF obj.namespace # ""
  THEN [key |-> obj.namespace \o "/" \o obj.name, err |-> ErrNil]
  ELSE [key |-> obj.name, err |-> ErrNil]

\* (c *controller) enqueueService
enqueueService(q, obj) ==
  LET k == MetaNamespaceKeyFunc(obj)
  IN IF k.err # ErrNil THEN q ELSE QueueAdd(q, k.key)

\* AddFunc of the handler registered in Register.
AddFunc(q, obj) == enqueueService(q, obj)

\* UpdateFunc without the comparison of the resource versions.
UpdateFuncNoCheck(q, oldObj, newObj) == enqueueService(q, newObj)

\* UpdateFunc of the handler registered in Register.
UpdateFunc(q, oldObj, newObj) ==
  IF newObj.resourceVersion = oldObj.resourceVersion
  THEN q
  ELSE enqueueService(q, newObj)

\* The namespaces of the services the informer reports: a translated
\* namespace and a namespace that is no translation of any.
InformerNamespaces == {ToSuperMasterNamespace("c1", "default"), "default"}

\* The services the informer given to Register delivers. Register adds the
\* handlers without a filter, so they are called with every service of the
\* informer, in any namespace and whatever cluster its provenance names.
InformerServices ==
  [namespace : InformerNamespaces, name : Names, clusterLabel : Clusters,
   resourceVersion : 1..MaxRV, clusterIP : {""}]

(***************************************************************************)
(* Requests                                                                *)
(***************************************************************************)

\* reconciler.Request
Request(cluster, namespace, name, event, obj) ==
  [cluster |-> cluster, namespace |-> namespace, name |-> name, event |-> event, obj |-> obj]

\* The requests Reconcile can be called with: the key is the key of the
\* carried service; a nil service, no object and an object of another type
\* come with any key.
ServicesOf(k) == {s \in Services : s.namespace = k.namespace /\ s.name = k.name}

ObjectsOf(k) == ServicesOf(k) \cup {NilService} \cup OtherObjects

\* request.Event is a string: a value that is none of the three kinds.
UnknownEvents == {"Generic"}

Requests ==
  UNION {{Request(k.cluster, k.namespace, k.name, e, s) : s \in ObjectsOf(k)} :
           k \in TenantKeys, e \in EventKinds \cup UnknownEvents}

NoRequest == Request("", "", "", "None", NilService)

RequestKey(request) == Key(request.cluster, request.namespace, request.name)

Min(a, b) == IF a < b THEN a ELSE b

(***************************************************************************)
(* Specification Spec: Reconcile invoked with any request, on any host     *)
(* state the controller has produced, the host API failing or not.         *)
(***************************************************************************)

NoEvent == [handler |-> "none", oldObj |-> NilService, newObj |-> NilService,
            queueBefore |-> EmptyQueue]

\* The tenant objects of the runs of the whole controller: one per cluster.
EngineKeys == {Key("c1", "default", "web"), Key("c2", "default", "web")}

NoPending == [event |-> "None", obj |-> NilService, count |-> 0]

IdleWorker == [pc |-> "idle", request |-> NoRequest, err |-> ErrNil, coalesced |-> 0]

\* The error of sc.NewController when the multi cluster controller cannot be
\* constructed.
ErrNewController == "NewControllerError"

\* Register that goes on after the failure of sc.NewController.
RegisterNoReturn(err) == [err |-> err, handlers |-> TRUE, manager |-> TRUE]

\* Register: when sc.NewController fails the error is logged and Register
\* returns; otherwise the handlers are added to the informer and the
\* controller is added to the controller manager.
Register(err) ==
  IF err # ErrNil
  THEN [err |-> err, handlers |-> FALSE, manager |-> FALSE]
  ELSE [err |-> err, handlers |-> TRUE, manager |-> TRUE]

NoLifecycle == [added |-> [c \in Clusters |-> "never"], removed |-> {}]

InitEngine ==
  /\ lifecycle = NoLifecycle
  /\ tenant = [k \in EngineKeys |-> 0]
  /\ watched = {}
  /\ pending = [k \in EngineKeys |-> NoPending]
  /\ wq = EmptyQueue
  /\ delayed = {}
  /\ worker = [w \in Workers |-> IdleWorker]
  /\ budget = [events |-> MaxEvents, faults |-> MaxFaults]

\* The controller as Register leaves it, sc.NewController having failed or
\* not: an empty queue, nothing reconciled.
Init ==
  /\ InitEngine
  /\ \E err \in {ErrNil, ErrNewController} : wiring = Register(err)
  /\ host = {}
  /\ last = [request |-> NoRequest, fault |-> NoFault, result |-> Result(FALSE),
             err |-> ErrNil, calls |-> <<>>, hostBefore |-> {}]
  /\ samePrev = FALSE
  /\ prevErr = ErrNil
  /\ streak = 0
  /\ queue = EmptyQueue
  /\ lastEvent = NoEvent
  /\ enqueuedFor = [key \in {} |-> ""]

\* One call of Reconcile(request), the host API answering with `fault`.
ReconcileCall(request, fault) ==
  LET out == Reconcile(host, request, fault)
  IN /\ host' = out.host
     /\ last' = [request |-> request, fault |-> fault, result |-> out.result,
                 err |-> out.err, calls |-> out.calls, hostBefore |-> host]
     /\ samePrev' = (last.request = request)
     /\ prevErr' = last.err
     /\ streak' = IF /\ last.request = request
                     /\ request.event = AddEvent
                     /\ last.err \in HostFaults
                  THEN Min(streak + 1, MaxStreak)
                  ELSE 0

\* The answers the host API can give to the call that the handler of an event
\* kind issues, beside the regular one.
FaultsFor(event) ==
  CASE event = AddEvent -> CreateFaults
    [] event = DeleteEvent -> DeleteFaults
    [] OTHER -> {}

\* The controller manager runs the controller it was given: StartDWS starts
\* the multi cluster controller, which calls Reconcile.
\* A Reconcile that panics ends the process and leaves the host as it is;
\* what is reconciled after it is reconciled by the restarted controller.
DoReconcile ==
  /\ wiring.manager
  /\ \E request \in Requests :
       \E fault \in FaultsFor(request.event) \cup {NoFault} :
         ReconcileCall(request, fault)
  /\ UNCHANGED <<wiring, informerVars, engineVars>>

Next == DoReconcile

Spec == Init /\ [][Next]_vars

TypeOK ==
  /\ \A o \in host : o.name \in Names
  /\ last.err \in {ErrNil, ErrConversion, ErrPanic} \cup HostFaults
  /\ streak \in 0..MaxStreak

(***************************************************************************)
(* Properties of Reconcile (specification Spec)                            *)
(***************************************************************************)

\* The host namespace a request is mirrored into, and its mirrors in a host.
Target(request) == ToSuperMasterNamespace(request.cluster, request.namespace)

MirrorsOf(h, request) == HostObjectsAt(h, Target(request), request.name)

Success == last.result = Result(FALSE) /\ last.err = ErrNil

\* The last Reconcile issued a host call that the host answered with `err`.
Answered(err) == Len(last.calls) = 1 /\ last.calls[1].err = err

\* C1 (idempotent create): when the same Create request is reconciled twice
\* in a row and the first attempt succeeded, exactly one object is at the
\* translated namespace/name, the second attempt leaves the host as it was,
\* and, the host answering the call, it returns Result{Requeue: false} and a
\* nil error.
IdempotentCreate ==
  (last.request.event = AddEvent /\ samePrev /\ prevErr = ErrNil) =>
    /\ Cardinality(MirrorsOf(host, last.request)) = 1
    /\ host = last.hostBefore
    /\ last.fault = NoFault => Success

IdempotentCreateWitness ==
  /\ last.request.event = AddEvent /\ samePrev /\ prevErr = ErrNil
  /\ Answered(ErrAlreadyExists)
  /\ Success

Benign(event) ==
  CASE event = AddEvent -> {ErrAlreadyExists}
    [] event = DeleteEvent -> {ErrNotFound}
    [] OTHER -> {}

\* C3 (requeue on failure): a host call that fails with an error other than
\* the benign race of the event kind makes Reconcile return
\* Result{Requeue: true} with that error; Reconcile returns
\* Result{Requeue: false} with a nil error only if every host call it issued
\* succeeded or hit the benign race, and then a failed call left no error
\* behind; requeue and a non-nil error always come together in what
\* Reconcile returns.
RequeueOnFailure ==
  /\ \A i \in DOMAIN last.calls :
       last.calls[i].err \notin {ErrNil} \cup Benign(last.request.event) =>
         last.result = Result(TRUE) /\ last.err = last.calls[i].err
  /\ Success =>
       \A i \in DOMAIN last.calls :
         last.calls[i].err \in {ErrNil} \cup Benign(last.request.event)
  /\ last.err # ErrPanic => (last.result.Requeue <=> last.err # ErrNil)

RequeueOnFailureWitness ==
  /\ last.request.event = AddEvent
  /\ Answered("NotFound")
  /\ last.result = Result(TRUE) /\ last.err = "NotFound"

\* C4 (retry after transient failure): a Create whose host call fails leaves
\* the host as it was, so nothing is at the translated namespace/name if
\* nothing was there; and when a Create succeeds after failed attempts of the
\* same request, exactly one object is at the translated namespace/name.
RetryAfterTransientFailure ==
  /\ (last.request.event = AddEvent /\ \E f \in CreateFaults : Answered(f)) =>
       /\ host = last.hostBefore
       /\ MirrorsOf(last.hostBefore, last.request) = {} => MirrorsOf(host, last.request) = {}
       /\ last.result = Result(TRUE) /\ last.err \in CreateFaults
  /\ (last.request.event = AddEvent /\ streak >= 1 /\ last.err = ErrNil) =>
       Cardinality(MirrorsOf(host, last.request)) = 1

RetryAfterTransientFailureWitness ==
  /\ last.request.event = AddEvent /\ streak = MaxStreak
  /\ Answered(ErrNil) /\ Success
  /\ MirrorsOf(last.hostBefore, last.request) = {}
  /\ Cardinality(MirrorsOf(host, last.request)) = 1

\* The mirror of tenant object k.
IsMirrorOf(o, k) ==
  /\ o.name = k.name
  /\ o.namespace = ToSuperMasterNamespace(k.cluster, k.namespace)
  /\ o.clusterLabel = k.cluster
  /\ o.namespaceLabel = k.namespace

\* C6 (mirrored-object invariant): every host object is the mirror of one
\* tenant object: it has its name, lives in the translated namespace of its
\* cluster and namespace, and records that cluster and namespace; and the
\* object a Create adds is the mirror of the object of the request.
MirroredObjectInvariant ==
  /\ \A o \in host : \E k \in TenantKeys : IsMirrorOf(o, k)
  /\ (last.request.event = AddEvent /\ Answered(ErrNil)) =>
       /\ Cardinality(host \ last.hostBefore) = 1
       /\ \A o \in host \ last.hostBefore : IsMirrorOf(o, RequestKey(last.request))

MirroredObjectInvariantWitness ==
  /\ last.request.event = AddEvent /\ Answered(ErrNil)
  /\ RequestKey(last.request) = Key("c1", "default", "web")
  /\ \E o \in host \ last.hostBefore :
       /\ o.name = "web" /\ o.namespace = ToSuperMasterNamespace("c1", "default")
       /\ o.clusterLabel = "c1" /\ o.namespaceLabel = "default"

\* C7 (mirror created on Update when absent), as claimed: an Update of a
\* service reconciled while nothing is at the translated namespace/name
\* creates the mirror.
UpdateCreatesMirrorWhenAbsent ==
  (/\ last.request.event = UpdateEvent
   /\ IsService(last.request.obj) /\ ~IsNilService(last.request.obj)
   /\ MirrorsOf(last.hostBefore, last.request) = {}) =>
    Cardinality(MirrorsOf(host, last.request)) = 1

PutBy(by, q, r, obj) ==
  [key \in r.dirty |-> IF key \in q.dirty THEN by[key] ELSE obj.clusterLabel]

\* The informer reports a service it has not reported before.
OnAdd ==
  /\ wiring.handlers
  /\ \E obj \in InformerServices :
       /\ queue' = AddFunc(queue, obj)
       /\ enqueuedFor' = PutBy(enqueuedFor, queue, AddFunc(queue, obj), obj)
       /\ lastEvent' = [handler |-> "AddFunc", oldObj |-> obj, newObj |-> obj,
                        queueBefore |-> queue]
  /\ UNCHANGED <<host, wiring, reconcileVars, engineVars>>

\* The informer reports a changed service, or on a periodic resync the
\* service as it is; old and new are versions of the same service.
OnUpdate ==
  /\ wiring.handlers
  /\ \E oldObj \in InformerServices, newObj \in InformerServices :
       /\ oldObj.namespace = newObj.namespace /\ oldObj.name = newObj.name
       /\ oldObj.clusterLabel = newObj.clusterLabel
       /\ queue' = UpdateFunc(queue, oldObj, newObj)
       /\ enqueuedFor' = PutBy(enqueuedFor, queue, UpdateFunc(queue, oldObj, newObj), newObj)
       /\ lastEvent' = [handler |-> "UpdateFunc", oldObj |-> oldObj, newObj |-> newObj,
                        queueBefore |-> queue]
  /\ UNCHANGED <<host, wiring, reconcileVars, engineVars>>

NextInformer == OnAdd \/ OnUpdate

SpecInformer == Init /\ [][NextInformer]_vars

\* How often an item is in the list of a queue.
Occurrences(seq, item) == Cardinality({i \in DOMAIN seq : seq[i] = item})

\* C10 (no-op resync suppression): an Update notification with equal
\* resource versions leaves c.queue as it was; one with different resource
\* versions leaves the key of the new object waiting in c.queue, once.
NoOpResyncSuppression ==
  lastEvent.handler = "UpdateFunc" =>
    IF lastEvent.newObj.resourceVersion = lastEvent.oldObj.resourceVersion
    THEN queue = lastEvent.queueBefore
    ELSE LET key == MetaNamespaceKeyFunc(lastEvent.newObj).key
         IN /\ key \in queue.dirty
            /\ Occurrences(queue.queue, key) = 1

\* A resync of a service whose key is not waiting, other keys waiting.
NoOpResyncSuppressionWitness ==
  /\ lastEvent.handler = "UpdateFunc"
  /\ lastEvent.newObj.resourceVersion = lastEvent.oldObj.resourceVersion
  /\ MetaNamespaceKeyFunc(lastEvent.newObj).key \notin queue.dirty
  /\ queue.queue # <<>>
  /\ queue = lastEvent.queueBefore

(***************************************************************************)
(* Specification SpecEngine: the whole controller. Tenant clusters are     *)
(* added, their services are created, updated and deleted, the multi       *)
(* cluster controller queues a key per notification and its workers call   *)
(* Reconcile with the latest notification of the key they take.            *)
(***************************************************************************)

\* The tenant service of key k at resource version rv.
TenantService(k, rv) ==
  [namespace |-> k.namespace, name |-> k.name, resourceVersion |-> rv, clusterIP |-> "10.0.0.1"]

\* A notification of the watch of a tenant cluster: the pending item of the
\* key is added or refreshed.
Notified(p, event, obj) == [event |-> event, obj |-> obj, count |-> p.count + 1]

Notify(k, event, obj) ==
  /\ pending' = [pending EXCEPT ![k] = Notified(@, event, obj)]
  /\ wq' = QueueAdd(wq, k)

\* A change in a tenant cluster is notified if the cluster is watched.
NotifyIfWatched(k, event, obj) ==
  IF k.cluster \in watched
  THEN Notify(k, event, obj)
  ELSE UNCHANGED <<pending, wq>>

RECURSIVE QueueAddAll(_, _)
QueueAddAll(q, items) ==
  IF items = {}
  THEN q
  ELSE LET k == CHOOSE x \in items : TRUE
       IN QueueAddAll(QueueAdd(q, k), items \ {k})

\* WatchClusterResource of the multi cluster controller: the watch of the
\* cluster starts, or fails. A started watch lists the services the cluster
\* has and notifies each as added.
WatchClusterResource(cluster, ok) ==
  IF ok
  THEN LET listed == {k \in EngineKeys : k.cluster = cluster /\ tenant[k] > 0}
       IN /\ watched' = watched \cup {cluster}
          /\ pending' = [k \in EngineKeys |->
                           IF k \in listed
                           THEN Notified(pending[k], AddEvent, TenantService(k, tenant[k]))
                           ELSE pending[k]]
          /\ wq' = QueueAddAll(wq, listed)
  ELSE UNCHANGED <<watched, pending, wq>>

\* (c *controller) AddCluster: WatchClusterResource is called; its error is
\* logged.
AddCluster(cluster) ==
  /\ wiring.manager
  /\ cluster \notin watched
  /\ \E ok \in BOOLEAN :
       /\ lifecycle' = [added |-> [lifecycle.added EXCEPT ![cluster] =
                                     IF ok THEN "ok" ELSE "failed"],
                        removed |-> lifecycle.removed \ {cluster}]
       /\ WatchClusterResource(cluster, ok)
  /\ UNCHANGED <<host, wiring, reconcileVars, informerVars, tenant, delayed, worker, budget>>

\* (c *controller) RemoveCluster: logs "not implemented yet".
RemoveCluster(cluster) ==
  /\ wiring.manager
  /\ lifecycle.added[cluster] # "never"
  /\ cluster \notin lifecycle.removed
  /\ lifecycle' = [lifecycle EXCEPT !.removed = @ \cup {cluster}]
  /\ UNCHANGED <<host, wiring, reconcileVars, informerVars, tenant, watched, pending, wq,
                 delayed, worker, budget>>

SpendEvent == budget' = [budget EXCEPT !.events = @ - 1]

\* A service is created in a tenant cluster.
TenantCreate(k) ==
  /\ budget.events > 0
  /\ tenant[k] = 0
  /\ tenant' = [tenant EXCEPT ![k] = 1]
  /\ NotifyIfWatched(k, AddEvent, TenantService(k, 1))
  /\ SpendEvent
  /\ UNCHANGED <<host, wiring, lifecycle, reconcileVars, informerVars, watched, delayed, worker>>

\* A service of a tenant cluster changes.
TenantUpdate(k) ==
  /\ budget.events > 0
  /\ tenant[k] \in 1..(MaxRV - 1)
  /\ tenant' = [tenant EXCEPT ![k] = @ + 1]
  /\ NotifyIfWatched(k, UpdateEvent, TenantService(k, tenant[k] + 1))
  /\ SpendEvent
  /\ UNCHANGED <<host, wiring, lifecycle, reconcileVars, informerVars, watched, delayed, worker>>

\* A service of a tenant cluster is deleted.
TenantDelete(k) ==
  /\ budget.events > 0
  /\ tenant[k] > 0
  /\ tenant' = [tenant EXCEPT ![k] = 0]
  /\ NotifyIfWatched(k, DeleteEvent, TenantService(k, tenant[k]))
  /\ SpendEvent
  /\ UNCHANGED <<host, wiring, lifecycle, reconcileVars, informerVars, watched, delayed, worker>>

\* A worker takes the next key and builds the request from the latest
\* notification of the key.
WorkerGet(w) ==
  /\ wiring.manager
  /\ worker[w].pc = "idle"
  /\ wq.queue # <<>>
  /\ LET k == Head(wq.queue)
     IN /\ wq' = [wq EXCEPT !.queue = Tail(@), !.dirty = @ \ {k}, !.processing = @ \cup {k}]
        /\ worker' = [worker EXCEPT ![w] =
                        [pc |-> "reconcile",
                         request |-> Request(k.cluster, k.namespace, k.name,
                                             pending[k].event, pending[k].obj),
                         err |-> ErrNil,
                         coalesced |-> pending[k].count]]
        /\ pending' = [pending EXCEPT ![k].count = 0]
  /\ UNCHANGED <<host, wiring, lifecycle, reconcileVars, informerVars, tenant, watched, delayed, budget>>

\* The worker calls Reconcile; the host API may fail while faults are left.
WorkerReconcile(w) ==
  /\ wiring.manager
  /\ worker[w].pc = "reconcile"
  /\ \E fault \in FaultsFor(worker[w].request.event) \cup {NoFault} :
       /\ fault # NoFault => budget.faults > 0
       /\ LET out == Reconcile(host, worker[w].request, fault)
          IN /\ host' = out.host
             /\ worker' = [worker EXCEPT ![w].pc = "done", ![w].err = out.err]
             /\ budget' = IF Len(out.calls) > 0 /\ fault # NoFault
                           THEN [budget EXCEPT !.faults = @ - 1]
                           ELSE budget
  /\ UNCHANGED <<wiring, lifecycle, reconcileVars, informerVars, tenant, watched, pending, wq, delayed>>

\* The worker is done with the key: a failed key goes to the rate limiter,
\* and a key that was notified meanwhile goes back to the queue.
WorkerDone(w) ==
  /\ wiring.manager
  /\ worker[w].pc = "done"
  /\ LET k == RequestKey(worker[w].request)
     IN /\ delayed' = IF worker[w].err # ErrNil THEN delayed \cup {k} ELSE delayed
        /\ wq' = IF k \in wq.dirty
                 THEN [wq EXCEPT !.processing = @ \ {k}, !.queue = Append(@, k)]
                 ELSE [wq EXCEPT !.processing = @ \ {k}]
  /\ worker' = [worker EXCEPT ![w] = IdleWorker]
  /\ UNCHANGED <<host, wiring, lifecycle, reconcileVars, informerVars, tenant, watched, pending, budget>>

\* The backoff of a failed key is over: the rate limiter adds the key.
DelayExpires(k) ==
  /\ wiring.manager
  /\ k \in delayed
  /\ delayed' = delayed \ {k}
  /\ wq' = QueueAdd(wq, k)
  /\ UNCHANGED <<host, wiring, lifecycle, reconcileVars, informerVars, tenant, watched, pending, worker, budget>>

DoAddCluster == \E c \in Clusters : AddCluster(c)

DoRemoveCluster == \E c \in Clusters : RemoveCluster(c)

DoTenantCreate == \E k \in EngineKeys : TenantCreate(k)

DoTenantUpdate == \E k \in EngineKeys : TenantUpdate(k)

DoTenantDelete == \E k \in EngineKeys : TenantDelete(k)

DoWorkerGet == \E w \in Workers : WorkerGet(w)

DoWorkerReconcile == \E w \in Workers : WorkerReconcile(w)

DoWorkerDone == \E w \in Workers : WorkerDone(w)

DoDelayExpires == \E k \in EngineKeys : DelayExpires(k)

NextEngine ==
  \/ DoAddCluster
  \/ DoRemoveCluster
  \/ DoTenantCreate
  \/ DoTenantUpdate
  \/ DoTenantDelete
  \/ DoWorkerGet
  \/ DoWorkerReconcile
  \/ DoWorkerDone
  \/ DoDelayExpires

SpecEngine == Init /\ [][NextEngine]_vars

\* Nothing is queued, held back or in the hands of a worker.
Quiescent ==
  /\ wq = EmptyQueue
  /\ delayed = {}
  /\ \A w \in Workers : worker[w].pc = "idle"

\* C5 (eventual faithful projection), as claimed: once every notification
\* has been worked off, the host has the mirror of a watched tenant object
\* if and only if the tenant object exists, and has it once.
FaithfulProjection ==
  Quiescent =>
    \A k \in EngineKeys :
      k.cluster \in watched =>
        LET mirrors == HostObjectsAt(host, ToSuperMasterNamespace(k.cluster, k.namespace), k.name)
        IN /\ Cardinality(mirrors) <= 1
           /\ mirrors # {} <=> tenant[k] > 0

\* The workers that hold a request of key k.
InFlight(k) == {w \in Workers : worker[w].pc # "idle" /\ RequestKey(worker[w].request) = k}

\* C9 (per-key serialization and coalescing): at most one worker holds a
\* request of a key; a key waits in the queue at most once however many
\* notifications it got, and not while a worker holds it; and the item that
\* waits carries the latest state of the tenant object: its current version,
\* or the Delete of an object that is gone.
PerKeySerializationAndCoalescing ==
  \A k \in EngineKeys :
    /\ Cardinality(InFlight(k)) <= 1
    /\ Occurrences(wq.queue, k) <= 1
    /\ Occurrences(wq.queue, k) = 1 => (k \in wq.dirty /\ k \notin wq.processing)
    /\ InFlight(k) # {} <=> k \in wq.processing
    /\ (k \in wq.dirty /\ tenant[k] > 0) =>
         /\ pending[k].event \in {AddEvent, UpdateEvent}
         /\ pending[k].obj = TenantService(k, tenant[k])
    /\ (k \in wq.dirty /\ tenant[k] = 0) => pending[k].event = DeleteEvent

\* Two workers on different keys; one holds a request that stands for two
\* notifications and carries the later object, and its key was notified
\* again meanwhile and is held back.
PerKeySerializationAndCoalescingWitness ==
  \E w \in Workers, v \in Workers, k \in EngineKeys :
    /\ w # v
    /\ worker[w].pc = "reconcile" /\ RequestKey(worker[w].request) = k
    /\ worker[w].coalesced >= 2
    /\ worker[w].request.obj.resourceVersion = 2
    /\ k \in wq.dirty /\ Occurrences(wq.queue, k) = 0
    /\ worker[v].pc = "reconcile" /\ RequestKey(worker[v].request) # k

(***************************************************************************)
(* Properties of the cluster lifecycle (specification SpecEngine)          *)
(***************************************************************************)

\* C11: RemoveCluster stops the watch without cascade: once RemoveCluster(c)
\* has returned, no step notifies (enqueues) a new event of a key of cluster
\* c or hands a new request of cluster c to a worker, and the step of
\* RemoveCluster itself leaves the host objects as they are.
RemoveClusterStopsWatch ==
  [][(\A k \in EngineKeys :
        (k.cluster \in lifecycle.removed /\ k.cluster \in lifecycle'.removed)
          => (/\ pending'[k].count <= pending[k].count
              /\ (k \in wq'.dirty => (k \in wq.dirty \/ k \in delayed))))
     /\ (lifecycle'.removed # lifecycle.removed => host' = host)]_vars

(***************************************************************************)
(* Namespace translation, isolation and the shape of one Reconcile         *)
(* (specification Spec)                                                     *)
(***************************************************************************)

\* The host objects a Reconcile added or removed.
Changed == (host \ last.hostBefore) \cup (last.hostBefore \ host)

\* C13 (tenant isolation): a Reconcile for (cluster, namespace, name) adds or
\* removes at most the one host object at the translated namespace of
\* (cluster, namespace) and that name; every object of another cluster,
\* another host namespace or another name is on the host after it exactly if
\* it was before. Each Reconcile acts on the host by one atomic call, so the
\* calls of concurrent workers take effect in some order, and the requests of
\* this specification come in every order.
TenantIsolation ==
  /\ \A o \in Changed : o.namespace = Target(last.request) /\ o.name = last.request.name
  /\ Cardinality(Changed) <= 1
  /\ \A o \in host \cup last.hostBefore :
        (o.namespace # Target(last.request) \/ o.name # last.request.name)
          => (o \in host <=> o \in last.hostBefore)

\* A Delete removed its mirror while the host holds a service of another name
\* in the same host namespace, one of another namespace and one of another
\* cluster.
TenantIsolationWitness ==
  /\ last.request.event = DeleteEvent
  /\ Cardinality(Changed) = 1
  /\ \E o \in host : o.namespace = Target(last.request) /\ o.name # last.request.name
  /\ \E o \in host : /\ o.clusterLabel = last.request.cluster
                      /\ o.namespaceLabel # last.request.namespace
  /\ \E o \in host : o.clusterLabel # last.request.cluster

\* C14 (at most one mutation per invocation): on every path, success, benign
\* race, transient failure and conversion failure, one Reconcile issues at
\* most one host call (none when the conversion fails, on an Update and on an
\* unknown event kind); the host changes by at most the one object of that
\* call, and not at all when the call fails, so no host state holds a half
\* applied mirror operation.
AtMostOneMutation ==
  /\ Len(last.calls) <= 1
  /\ last.err = ErrConversion => last.calls = <<>>
  /\ last.request.event \notin {AddEvent, DeleteEvent} => last.calls = <<>>
  /\ Cardinality(Changed) <= Len(last.calls)
  /\ \A i \in DOMAIN last.calls : last.calls[i].err # ErrNil => host = last.hostBefore

\* A Create that met the benign race: one call, answered AlreadyExists, after
\* a Reconcile that failed.
AtMostOneMutationWitness ==
  /\ last.request.event = AddEvent
  /\ Answered(ErrAlreadyExists)
  /\ prevErr \in HostFaults
  /\ host = last.hostBefore

\* The object of the last request cannot be converted to a host service: it
\* is no *v1.Service, or a nil one.
Malformed ==
  last.request # NoRequest /\ (~IsService(last.request.obj) \/ IsNilService(last.request.obj))

\* C15 (malformed input is an error value, not a crash), as claimed: whenever
\* the object a request of one of the three event kinds carries cannot be
\* converted, Reconcile does not panic: it returns a non-nil error with
\* Requeue true and issues no host call.
MalformedInputIsAnError ==
  (Malformed /\ last.request.event \in EventKinds)
    => /\ last.err \notin {ErrNil, ErrPanic}
       /\ last.result = Result(TRUE)
       /\ last.calls = <<>>
       /\ host = last.hostBefore

(***************************************************************************)
(* Registration and the routing of clusters (specification SpecEngine)     *)
(***************************************************************************)

\* C16 (failed registration leaves nothing wired): when sc.NewController has
\* failed in Register, no handler is registered with the informer and the
\* controller is not added to the controller manager; whatever happens in
\* the tenant clusters afterwards, nothing is ever enqueued, no Reconcile is
\* called (no worker holds a request, the host stays empty) and neither
\* AddCluster nor RemoveCluster is called.
FailedRegistrationWiresNothing ==
  wiring.err # ErrNil
    => /\ ~wiring.handlers
       /\ ~wiring.manager
       /\ queue = EmptyQueue /\ lastEvent = NoEvent
       /\ wq = EmptyQueue /\ delayed = {}
       /\ \A k \in EngineKeys : pending[k] = NoPending
       /\ \A w \in Workers : worker[w] = IdleWorker
       /\ last.request = NoRequest /\ host = {}
       /\ lifecycle = NoLifecycle /\ watched = {}

\* Registration failed and services were created, updated and deleted in the
\* tenant clusters until no event was left.
FailedRegistrationWiresNothingWitness ==
  /\ wiring.err = ErrNewController
  /\ budget.events = 0
  /\ \E k \in EngineKeys : tenant[k] > 0

\* C17 (AddCluster starts routing), as claimed: once AddCluster(c) has
\* returned, the controller is watching cluster c, so that the events of c
\* are routed.
AddClusterAlwaysWatches ==
  \A c \in Clusters : lifecycle.added[c] # "never" => c \in watched

(***************************************************************************)
(* The keys of c.queue (specification SpecInformer)                        *)
(***************************************************************************)

\* C18 (queue keys identify the cluster), as claimed: an object handed to
\* enqueueService gets a key of its own cluster, so the item that waits under
\* its key is an item of the cluster the object belongs to; two objects of
\* the same namespace and name that belong to different clusters never share
\* one waiting item.
QueueKeysIdentifyCluster ==
  (\/ lastEvent.handler = "AddFunc"
   \/ /\ lastEvent.handler = "UpdateFunc"
      /\ lastEvent.newObj.resourceVersion # lastEvent.oldObj.resourceVersion)
    => LET key == MetaNamespaceKeyFunc(lastEvent.newObj).key
       IN /\ key \in queue.dirty
          /\ enqueuedFor[key] = lastEvent.newObj.clusterLabel

(***************************************************************************)
(* The dispatch of Reconcile (specification Spec)                          *)
(***************************************************************************)

\* C19 (unknown event kinds are silently accepted): a Reconcile of a request
\* whose event kind is none of Create, Update and Delete issues no host call,
\* leaves the host as it was and returns Result{Requeue: false} with a nil
\* error, whatever the object and whatever is on the host.
UnknownEventAccepted ==
  (last.request # NoRequest /\ last.request.event \notin EventKinds)
    => /\ last.calls = <<>>
       /\ host = last.hostBefore
       /\ last.result = Result(FALSE)
       /\ last.err = ErrNil

\* A request of an unknown event kind was accepted for a key whose mirror is
\* on the host, right after a Reconcile that failed.
UnknownEventAcceptedWitness ==
  /\ last.request.event \in UnknownEvents
  /\ Success
  /\ MirrorsOf(host, last.request) # {}
  /\ prevErr # ErrNil

\* What Reconcile does, on the host and with the answer of the host API of
\* the last Reconcile, for the last request carrying another object.
WithObject(obj) ==
  Reconcile(last.hostBefore, [last.request EXCEPT !.obj = obj], last.fault)

\* C20 (Delete depends only on the key), as claimed: for a Delete request the
\* host call issued, the host after it and the returned result and error are
\* the same whatever object the request carries: a stale version, a service
\* of other contents (another namespace, name or resource version), a nil
\* service, an object of another type or none.
DeleteDependsOnlyOnKey ==
  last.request.event = DeleteEvent
    => \A obj \in Services \cup {NilService} \cup OtherObjects :
         /\ WithObject(obj).host = host
         /\ WithObject(obj).calls = last.calls
         /\ WithObject(obj).result = last.result
         /\ WithObject(obj).err = last.err

====
